---- MODULE Spec2Model ----
(***************************************************************************)
(* Verification model of the GCOPTER global planning node:                 *)
(*   - pa_checker::Pa_checker (gcopter/pa_checker.hpp), the perception     *)
(*     aware progress monitor, and                                         *)
(*   - GlobalPlanner (src/global_planning.cpp), the node that buffers goal *)
(*     points, runs the planning pipeline and ticks the monitor.           *)
(*                                                                         *)
(* Time is counted in ticks of 0.01 s, so the scan of Pa_checker::check    *)
(* starts Eps = 1 tick after progress_t and advances Step = 5 ticks.       *)
(* Positions are integer 3-vectors; every comparison the code makes on     *)
(* norms and normalised vectors is carried out exactly on squares.         *)
(***************************************************************************)
EXTENDS Integers, Sequences, FiniteSets, TLC

\* ------------------------------------------------------------------------
\* Bounds of the model
\* ------------------------------------------------------------------------
MaxNow == 4            \* the clock ros::Time::now() runs from 0 to MaxNow ticks
MaxDelta == 6          \* largest elapsed time handed to check in the monitor-only specification
MaxSpeed == 2          \* largest speed handed to check in the monitor-only specification
MaxProgress == 1       \* largest initial progress handed to the constructor
MaxCloud == 1          \* number of points of a map message
MapZLo == 0            \* config.mapBound[4]
MapZHi == 3            \* config.mapBound[5]
DilateRadius == 1      \* config.dilateRadius (voxel width is 1)

\* ------------------------------------------------------------------------
\* Program constants
\* ------------------------------------------------------------------------
Eps == 1               \* 0.01 s: first sample is progress_t + 0.01
Step == 5              \* 0.05 s: t += 0.05
ConfAngle == 40        \* paChecker(0.0, 40.0, 4.0, 4.0, false): alpha
ConfAMax == 4          \*                                        amax
ConfMaxDist == 4       \*                                        maxdist

\* ------------------------------------------------------------------------
\* Eigen::Vector3d on integers
\* ------------------------------------------------------------------------
Zero3 == <<0, 0, 0>>
UnitX == <<1, 0, 0>>

Dot(a, b) == a[1] * b[1] + a[2] * b[2] + a[3] * b[3]

Sub(a, b) == <<a[1] - b[1], a[2] - b[2], a[3] - b[3]>>

Add(a, b) == <<a[1] + b[1], a[2] + b[2], a[3] + b[3]>>

Scale(k, a) == <<k * a[1], k * a[2], k * a[3]>>

Abs(n) == IF n < 0 THEN -n ELSE n

\* norm() of a vector whose squared norm is a perfect square
Norm(a) == CHOOSE n \in 0..Dot(a, a) : n * n = Dot(a, a)

\* ------------------------------------------------------------------------
\* Trajectory<5>: a sequence of pieces, each with a duration and a
\* polynomial; the model keeps the constant and linear coefficients.
\* ------------------------------------------------------------------------
EmptyTraj == <<>>

Piece(dur, c0, c1) == [dur |-> dur, c0 |-> c0, c1 |-> c1]

getPieceNum(tr) == Len(tr)

RECURSIVE getTotalDuration(_)
getTotalDuration(tr) ==
    IF tr = <<>> THEN 0 ELSE tr[1].dur + getTotalDuration(Tail(tr))

\* locatePieceIdx: walk the pieces while t exceeds the piece's duration; the
\* last piece also answers for every later time.
RECURSIVE locatePiece(_, _)
locatePiece(tr, t) ==
    IF Len(tr) = 1 \/ t <= tr[1].dur
    THEN [piece |-> tr[1], t |-> t]
    ELSE locatePiece(Tail(tr), t - tr[1].dur)

getPos(tr, t) ==
    LET l == locatePiece(tr, t) IN Add(l.piece.c0, Scale(l.t, l.piece.c1))

getVel(tr, t) == locatePiece(tr, t).piece.c1

\* trajectories the optimizer can return
TrajLine == <<Piece(7, Zero3, UnitX)>>

TrajBend == <<Piece(3, Zero3, <<2, 0, 0>>), Piece(4, <<6, 0, 0>>, <<0, 1, 0>>)>>

TrajHover == <<Piece(3, Zero3, Zero3)>>

TrajSet == {TrajLine, TrajBend, TrajHover}

\* ------------------------------------------------------------------------
\* pa_checker::Pa_checker
\* ------------------------------------------------------------------------
\* Pa_checker(progress, alpha, amax, maxdist, safeFlag)
Pa_checker(progress, alpha, amax, maxdist, safeFlag) ==
    [progress_t |-> progress, a_max |-> amax, max_dist |-> maxdist,
     safe |-> safeFlag, angle |-> alpha]

\* cos(angle / 2) as a fraction, angle in radians as the code passes it to
\* cos(): cos(20.0) = 0.408...
CosHalf(angle) ==
    CASE angle = 40 -> [num |-> 408, den |-> 1000]

\* h.dot(unit_check) > cos(angle/2), with h = H.normalized() and
\* unit_check = d.normalized() (normalized() of a zero vector is the zero vector)
InCone(angle, H, d) ==
    LET n == CosHalf(angle).num
        D == CosHalf(angle).den
        hd == Dot(H, d)
        hh == Dot(H, H)
        dd == Dot(d, d)
    IN  IF hh = 0 \/ dd = 0
        THEN 0 > n
        ELSE IF n >= 0
             THEN hd > 0 /\ D * D * hd * hd > n * n * hh * dd
             ELSE hd >= 0 \/ D * D * hd * hd < n * n * hh * dd

\* variant: < in place of <=
InRangeStrict(maxdist, H, d) ==
    LET hd == Dot(H, d)
        hh == Dot(H, H)
    IN  IF hh = 0 THEN 0 < maxdist
        ELSE hd <= 0 \/ hd * hd < maxdist * maxdist * hh

\* h.dot(check_pos) <= max_dist, with h = H.normalized() and max_dist >= 0
InRange(maxdist, H, d) ==
    LET hd == Dot(H, d)
        hh == Dot(H, H)
    IN  IF hh = 0 THEN 0 <= maxdist
        ELSE hd <= 0 \/ hd * hd <= maxdist * maxdist * hh

\* the condition of the if in the scan loop
Visible(m, H, d) == InCone(m.angle, H, d) /\ InRange(m.max_dist, H, d)

\* variant: the two results of the conditional exchanged
StopSafeFlipped(amax, speed, d) ==
    speed * speed * speed * speed > 4 * amax * amax * Dot(d, d)

\* (speed*speed - 2*a_max*s) > 0 ? false : true, with s = d.norm(), a_max >= 0
StopSafe(amax, speed, d) ==
    ~(speed * speed * speed * speed > 4 * amax * amax * Dot(d, d))

\* variant: progress_t = delta without the test
ClampTakesElapsed(p, delta) == delta

\* variant: the clamp left out
ClampKeeps(p, delta) == p

\* if (progress_t <= delta) progress_t = delta;
Clamp(p, delta) == IF p <= delta THEN delta ELSE p

\* the else branch of the loop: the stopping-distance decision
Decide(m, tr, pos, speed) ==
    [m EXCEPT !.safe = StopSafe(m.a_max, speed, Sub(getPos(tr, m.progress_t), pos))]

\* variant: the scan goes on after a failing sample instead of breaking
RECURSIVE ScanResumes(_, _, _, _, _, _)
ScanResumes(m, tr, H, pos, speed, t) ==
    IF t <= getTotalDuration(tr)
    THEN IF Visible(m, H, Sub(getPos(tr, t), pos))
         THEN ScanResumes([m EXCEPT !.progress_t = t], tr, H, pos, speed, t + Step)
         ELSE ScanResumes(Decide(m, tr, pos, speed), tr, H, pos, speed, t + Step)
    ELSE m

\* for (double t = progress_t + 0.01; t <= traj.getTotalDuration(); t += 0.05)
RECURSIVE Scan(_, _, _, _, _, _)
Scan(m, tr, H, pos, speed, t) ==
    IF t <= getTotalDuration(tr)
    THEN IF Visible(m, H, Sub(getPos(tr, t), pos))
         THEN Scan([m EXCEPT !.progress_t = t], tr, H, pos, speed, t + Step)
         ELSE Decide(m, tr, pos, speed)
    ELSE m

\* variant: the loop advancing by 0.01 in place of 0.05
RECURSIVE ScanItersSmallStep(_, _, _, _, _)
ScanItersSmallStep(m, tr, H, pos, t) ==
    IF t <= getTotalDuration(tr)
    THEN IF Visible(m, H, Sub(getPos(tr, t), pos))
         THEN 1 + ScanItersSmallStep(m, tr, H, pos, t + Eps)
         ELSE 1
    ELSE 0

\* the number of times the body of the scan loop runs from sample t on
RECURSIVE ScanIters(_, _, _, _, _)
ScanIters(m, tr, H, pos, t) ==
    IF t <= getTotalDuration(tr)
    THEN IF Visible(m, H, Sub(getPos(tr, t), pos))
         THEN 1 + ScanIters(m, tr, H, pos, t + Step)
         ELSE 1
    ELSE 0

check(m, tr, H, pos, speed, delta) ==
    LET m1 == [m EXCEPT !.progress_t = Clamp(m.progress_t, delta)]
    IN  Scan(m1, tr, H, pos, speed, m1.progress_t + Eps)

getProgress(m) == m.progress_t

getSafeFlag(m) == m.safe

\* variant: clear() that resets the progress only
clearProgressOnly(m) == [m EXCEPT !.progress_t = 0]

\* variant: clear() that resets the flag only
clearSafeOnly(m) == [m EXCEPT !.safe = FALSE]

clear(m) == [m EXCEPT !.progress_t = 0, !.safe = FALSE]

\* ------------------------------------------------------------------------
\* voxel_map::VoxelMap: the set of cells that are occupied or dilated.
\* Voxel width 1 and origin 0, so a point is its own cell.
\* ------------------------------------------------------------------------
Cells == {<<0, 0, z>> : z \in MapZLo..MapZHi}

setOccupied(map, p) == map \cup ({p} \cap Cells)

\* dilate(r): every cell within r cells of an occupied one stops being free
dilate(map, r) ==
    {c \in Cells : \E o \in map :
        /\ Abs(c[1] - o[1]) <= r
        /\ Abs(c[2] - o[2]) <= r
        /\ Abs(c[3] - o[3]) <= r}

\* query(p): 0 for a free cell
query(map, p) == IF p \in map THEN 1 ELSE 0

\* a point of a PointCloud2 message: coordinates, or a NaN/inf entry
CloudPoints ==
    {[p |-> c, finite |-> TRUE] : c \in Cells} \cup {[p |-> Zero3, finite |-> FALSE]}

Clouds == {c \in SUBSET CloudPoints : Cardinality(c) <= MaxCloud}

\* the loop of mapCallBack over the points of the message
RECURSIVE ingest(_, _)
ingest(map, cloud) ==
    IF cloud = {} THEN map
    ELSE LET pt == CHOOSE q \in cloud : TRUE
         IN  IF ~pt.finite
             THEN ingest(map, cloud \ {pt})
             ELSE ingest(setOccupied(map, pt.p), cloud \ {pt})

\* ------------------------------------------------------------------------
\* GlobalPlanner
\* ------------------------------------------------------------------------
VARIABLES
    mapInitialized,   \* bool mapInitialized
    voxelMap,         \* voxel_map::VoxelMap voxelMap
    startGoal,        \* std::vector<Eigen::Vector3d> startGoal
    traj,             \* Trajectory<5> traj
    paChecker,        \* pa_checker::Pa_checker paChecker
    trajStamp,        \* double trajStamp
    now,              \* ros::Time::now()
    lastOp,           \* history: the operation that ran last
    lastCall,         \* history: the arguments of the last check call
    lastReq,          \* history: what the last goal request did
    accepted,         \* history: the goal points accepted so far, latest last (at most two kept)
    fresh,            \* history: a monitor cleared at the last installation and ticked since
    installedAt       \* history: the clock when the installed trajectory was installed

vars == <<mapInitialized, voxelMap, startGoal, traj, paChecker, trajStamp, now,
          lastOp, lastCall, lastReq, accepted, fresh, installedAt>>

planner == <<mapInitialized, voxelMap, startGoal, traj, trajStamp, now>>

history == <<lastOp, lastCall, lastReq, accepted, fresh, installedAt>>

NoCall == [pre |-> 0, delta |-> 0, speed |-> 0, pos |-> Zero3, h |-> Zero3]

NoReq ==
    [handled |-> FALSE, accepted |-> FALSE, planRan |-> FALSE, outcome |-> "none",
     args |-> <<>>, preBuf |-> <<>>, preTraj |-> EmptyTraj, preProgress |-> 0,
     preSafe |-> FALSE]

\* geometry_msgs::PoseStamped of a goal request
GoalMsgs == [x : {0}, y : {0}, oz : {-1, 0, 1}]

\* zGoal and goal of targetCallBack
goalOf(msg) ==
    <<msg.x, msg.y,
      MapZLo + DilateRadius + Abs(msg.oz) * (MapZHi - MapZLo - 2 * DilateRadius)>>

\* variant: the buffer never cleared
clearNever(sg) == sg

\* variant: > 2 in place of >= 2
clearIfOverfull(sg) == IF Len(sg) > 2 THEN <<>> ELSE sg

\* if (startGoal.size() >= 2) startGoal.clear();
clearIfFull(sg) == IF Len(sg) >= 2 THEN <<>> ELSE sg

\* variant: the goal inserted at the front
emplace_front(sg, goal) == <<goal>> \o sg

\* startGoal.emplace_back(goal)
emplace_back(sg, goal) == Append(sg, goal)

\* What the external pipeline answers for one run of plan(): the size of the
\* route, whether setup succeeds, whether the optimal cost is infinite, and
\* the trajectory optimize() leaves in its argument.
PlanOutcomes ==
    {[kind |-> "noRoute", route |-> r, setup |-> FALSE, inf |-> TRUE, traj |-> EmptyTraj] : r \in 0..1}
    \cup {[kind |-> "setupFail", route |-> 2, setup |-> FALSE, inf |-> TRUE, traj |-> EmptyTraj]}
    \cup {[kind |-> "infCost", route |-> 2, setup |-> TRUE, inf |-> TRUE, traj |-> EmptyTraj]}
    \cup {[kind |-> "emptyTraj", route |-> 2, setup |-> TRUE, inf |-> FALSE, traj |-> EmptyTraj]}
    \cup {[kind |-> "ok", route |-> 2, setup |-> TRUE, inf |-> FALSE, traj |-> t] : t \in TrajSet}

\* gcopter.optimize(traj, relCostTol): a trajectory, or failure (infinite
\* cost) with its argument left as it was
optimize(tr, out) == IF out.inf THEN tr ELSE out.traj

\* variant: the start time taken without the test of getPieceNum()
stampAlways(tr, stamp, clock) == clock

\* if (traj.getPieceNum() > 0) trajStamp = ros::Time::now().toSec();
stampAfter(tr, stamp, clock) == IF getPieceNum(tr) > 0 THEN clock ELSE stamp

\* plan(): the fields it leaves behind, and whether the pipeline ran
plan(sg, tr, mon, stamp, clock, out) ==
    IF Len(sg) = 2
    THEN IF out.route > 1
         THEN LET tr1 == EmptyTraj          \* traj.clear()
                  mon1 == clear(mon)        \* paChecker.clear()
              IN  IF ~out.setup
                  THEN [traj |-> tr1, mon |-> mon1, stamp |-> stamp, ran |-> TRUE]
                  ELSE LET tr2 == optimize(tr1, out)
                       IN  IF out.inf
                           THEN [traj |-> tr2, mon |-> mon1, stamp |-> stamp, ran |-> TRUE]
                           ELSE [traj |-> tr2, mon |-> mon1,
                                 stamp |-> stampAfter(tr2, stamp, clock),
                                 ran |-> TRUE]
         ELSE [traj |-> tr, mon |-> mon, stamp |-> stamp, ran |-> TRUE]
    ELSE [traj |-> tr, mon |-> mon, stamp |-> stamp, ran |-> FALSE]

Init ==
    /\ mapInitialized = FALSE
    /\ voxelMap = {}
    /\ startGoal = <<>>
    /\ traj = EmptyTraj
    /\ paChecker = Pa_checker(0, ConfAngle, ConfAMax, ConfMaxDist, FALSE)
    /\ trajStamp \in 0..1            \* not initialised by the constructor
    /\ now = 0
    /\ lastOp = "init"
    /\ lastCall = NoCall
    /\ lastReq = NoReq
    /\ accepted = <<>>
    /\ fresh = paChecker
    /\ installedAt = 0

\* the map messages that can arrive, before and after the map is set
mapMsgs == Clouds

\* variant: the message ingested without the test of mapInitialized
mapCallBackAlways(cloud) ==
    /\ voxelMap' = dilate(ingest(voxelMap, cloud), DilateRadius)
    /\ mapInitialized' = TRUE
    /\ lastOp' = "map"
    /\ lastCall' = NoCall
    /\ lastReq' = NoReq
    /\ UNCHANGED <<startGoal, traj, paChecker, trajStamp, now, accepted, fresh, installedAt>>

mapCallBack(cloud) ==
    /\ IF ~mapInitialized
       THEN /\ voxelMap' = dilate(ingest(voxelMap, cloud), DilateRadius)
            /\ mapInitialized' = TRUE
       ELSE UNCHANGED <<voxelMap, mapInitialized>>
    /\ lastOp' = "map"
    /\ lastCall' = NoCall
    /\ lastReq' = NoReq
    /\ UNCHANGED <<startGoal, traj, paChecker, trajStamp, now, accepted, fresh, installedAt>>

lastTwo(s) == IF Len(s) > 2 THEN SubSeq(s, Len(s) - 1, Len(s)) ELSE s

\* the answers of the pipeline that plan() can meet for a buffer
outcomesFor(sg) ==
    IF Len(sg) = 2 THEN PlanOutcomes ELSE {CHOOSE o \in PlanOutcomes : o.kind = "setupFail"}

\* the body of targetCallBack under if (mapInitialized)
handleGoal(msg) ==
    LET sg0 == clearIfFull(startGoal)
        goal == goalOf(msg)
        free == query(voxelMap, goal) = 0
        sg1 == IF free THEN emplace_back(sg0, goal) ELSE sg0
    IN  \E out \in outcomesFor(sg1) :
        LET r == plan(sg1, traj, paChecker, trajStamp, now, out)
        IN
        /\ startGoal' = sg1
        /\ traj' = r.traj
        /\ paChecker' = r.mon
        /\ trajStamp' = r.stamp
        /\ accepted' = IF free THEN lastTwo(Append(accepted, goal)) ELSE accepted
        /\ lastReq' = [handled |-> TRUE, accepted |-> free, planRan |-> r.ran,
                       outcome |-> IF r.ran THEN out.kind ELSE "none",
                       args |-> IF r.ran THEN sg1 ELSE <<>>,
                       preBuf |-> startGoal, preTraj |-> traj,
                       preProgress |-> paChecker.progress_t,
                       preSafe |-> paChecker.safe]
        /\ IF r.ran /\ out.kind = "ok"
           THEN /\ fresh' = [paChecker EXCEPT !.progress_t = 0, !.safe = FALSE]
                /\ installedAt' = now
           ELSE UNCHANGED <<fresh, installedAt>>

\* variant: the request handled without the test of mapInitialized
targetCallBackUnguarded(msg) ==
    /\ handleGoal(msg)
    /\ lastOp' = "target"
    /\ lastCall' = NoCall
    /\ UNCHANGED <<mapInitialized, voxelMap, now>>

targetCallBack(msg) ==
    /\ IF mapInitialized
       THEN handleGoal(msg)
       ELSE /\ UNCHANGED <<startGoal, traj, paChecker, trajStamp, accepted, fresh, installedAt>>
            /\ lastReq' = NoReq
    /\ lastOp' = "target"
    /\ lastCall' = NoCall
    /\ UNCHANGED <<mapInitialized, voxelMap, now>>

\* boresight directions q * UnitX the attitude can give
Boresights == {<<1, 0, 0>>, <<0, 1, 0>>, <<-1, 0, 0>>}

\* variant: the upper test of delta left out
inFlightNoUpper(delta, tr) == delta > 0

\* if (delta > 0.0 && delta < traj.getTotalDuration())
inFlight(delta, tr) == delta > 0 /\ delta < getTotalDuration(tr)

\* process(): one iteration of the main loop
process(H) ==
    /\ IF getPieceNum(traj) > 0
       THEN LET delta == now - trajStamp
            IN  IF inFlight(delta, traj)
                THEN LET pos == getPos(traj, delta)
                         speed == Norm(getVel(traj, delta))
                     IN  /\ paChecker' = check(paChecker, traj, H, pos, speed, delta)
                         /\ fresh' = check(fresh, traj, H, pos, speed, delta)
                         /\ lastOp' = "check"
                         /\ lastCall' = [pre |-> paChecker.progress_t, delta |-> delta,
                                         speed |-> speed, pos |-> pos, h |-> H]
                ELSE /\ UNCHANGED <<paChecker, fresh>>
                     /\ lastOp' = "tick"
                     /\ lastCall' = NoCall
       ELSE /\ UNCHANGED <<paChecker, fresh>>
            /\ lastOp' = "tick"
            /\ lastCall' = NoCall
    /\ lastReq' = NoReq
    /\ UNCHANGED <<mapInitialized, voxelMap, startGoal, traj, trajStamp, now, accepted, installedAt>>

\* the clock advances between iterations of the main loop
timeAdvance ==
    /\ now < MaxNow
    /\ now' = now + 1
    /\ lastOp' = "time"
    /\ lastCall' = NoCall
    /\ lastReq' = NoReq
    /\ UNCHANGED <<mapInitialized, voxelMap, startGoal, traj, paChecker, trajStamp,
                   accepted, fresh, installedAt>>

Next ==
    \/ \E cloud \in mapMsgs : mapCallBack(cloud)
    \/ \E msg \in GoalMsgs : targetCallBack(msg)
    \/ \E H \in Boresights : process(H)
    \/ timeAdvance

Spec == Init /\ [][Next]_vars

\* ------------------------------------------------------------------------
\* The monitor on its own: a Pa_checker built with any arguments, then any
\* sequence of check and clear calls against one trajectory.
\* ------------------------------------------------------------------------
InitChecker ==
    /\ mapInitialized = FALSE
    /\ voxelMap = {}
    /\ startGoal = <<>>
    /\ traj \in TrajSet
    /\ \E p \in 0..MaxProgress, sf \in BOOLEAN :
          paChecker = Pa_checker(p, ConfAngle, ConfAMax, ConfMaxDist, sf)
    /\ trajStamp = 0
    /\ now = 0
    /\ lastOp = "init"
    /\ lastCall = NoCall
    /\ lastReq = NoReq
    /\ accepted = <<>>
    /\ fresh = paChecker
    /\ installedAt = 0

\* positions handed to check: on the trajectory at the elapsed time, or off it
Positions(delta) == {getPos(traj, delta), Zero3}

checkCall(H, pos, speed, delta) ==
    /\ paChecker' = check(paChecker, traj, H, pos, speed, delta)
    /\ lastOp' = "check"
    /\ lastCall' = [pre |-> paChecker.progress_t, delta |-> delta,
                    speed |-> speed, pos |-> pos, h |-> H]
    /\ UNCHANGED <<planner, lastReq, accepted, fresh, installedAt>>

clearCall ==
    /\ paChecker' = clear(paChecker)
    /\ lastOp' = "clear"
    /\ lastCall' = [NoCall EXCEPT !.pre = paChecker.progress_t]
    /\ UNCHANGED <<planner, lastReq, accepted, fresh, installedAt>>

NextChecker ==
    \/ \E H \in Boresights, speed \in 0..MaxSpeed, delta \in 0..MaxDelta :
          \E pos \in Positions(delta) : checkCall(H, pos, speed, delta)
    \/ clearCall

SpecChecker == InitChecker /\ [][NextChecker]_vars

\* ------------------------------------------------------------------------
\* Properties
\* ------------------------------------------------------------------------

\* C1: a check call never lowers verifiedTime (progress_t): its value after
\* the call is at least its value before the call.
C1_Monotone ==
    lastOp = "check" => getProgress(paChecker) >= lastCall.pre

\* a call whose elapsed time lies behind a positive marker, which the scan advances
C1_Witness ==
    /\ lastOp = "check"
    /\ lastCall.pre > 0
    /\ lastCall.delta < lastCall.pre
    /\ getProgress(paChecker) > lastCall.pre

\* C2: after every check call with 0 <= elapsed <= T_total the flag safe is
\* the stopping-distance decision of this call, taken at the position of
\* verifiedTime after the scan.
C2_SafeOverwritten ==
    (lastOp = "check" /\ lastCall.delta <= getTotalDuration(traj)) =>
        getSafeFlag(paChecker) =
            StopSafe(paChecker.a_max, lastCall.speed,
                     Sub(getPos(traj, getProgress(paChecker)), lastCall.pos))

\* C3: after a check call with speed 0 (and 0 <= elapsed <= T_total) the
\* flag safe is true.
C3_ZeroSpeedSafe ==
    (lastOp = "check" /\ lastCall.delta <= getTotalDuration(traj) /\ lastCall.speed = 0) =>
        getSafeFlag(paChecker)

\* C4: a goal request whose planner pipeline fails (route of at most one
\* waypoint, setup failure, infinite cost) leaves the installed trajectory
\* and the monitor's verifiedTime and safe as they were before the request.
C4_FailureKeepsState ==
    (lastOp = "target" /\ lastReq.planRan
        /\ lastReq.outcome \in {"noRoute", "setupFail", "infCost"}) =>
        /\ traj = lastReq.preTraj
        /\ getProgress(paChecker) = lastReq.preProgress
        /\ getSafeFlag(paChecker) = lastReq.preSafe

\* C5: check is only called with a trajectory installed, and whenever a
\* trajectory is installed its start time is the clock of its installation
\* and the monitor is in the state of a monitor cleared at that installation
\* and ticked on this trajectory only.
C5_NoStaleProgress ==
    /\ lastOp = "check" => getPieceNum(traj) > 0
    /\ getPieceNum(traj) > 0 => (trajStamp = installedAt /\ paChecker = fresh)

\* a trajectory installed over one on which the monitor had advanced
C5_Witness ==
    /\ lastOp = "target"
    /\ lastReq.outcome = "ok"
    /\ getPieceNum(lastReq.preTraj) > 0
    /\ lastReq.preProgress > 0
    /\ getPieceNum(traj) > 0
    /\ installedAt > 0

\* C6: a goal request whose point is occupied leaves the goal buffer with
\* the size and contents it had before the request.
C6_RejectedKeepsBuffer ==
    (lastOp = "target" /\ lastReq.handled /\ ~lastReq.accepted) =>
        startGoal = lastReq.preBuf

\* C7: the planner pipeline runs during a goal request exactly when the
\* request's point was accepted and brought the buffer to two points (one
\* point was buffered before); no other operation runs it.
C7_PlanOncePerPair ==
    /\ lastOp = "target" =>
          (lastReq.planRan <=>
              (lastReq.handled /\ lastReq.accepted /\ Len(startGoal) = 2
                  /\ Len(lastReq.preBuf) = 1))
    /\ lastOp # "target" => ~lastReq.planRan

\* the pipeline ran for a pair
C7_Witness ==
    lastOp = "target" /\ lastReq.planRan /\ lastReq.accepted

\* C8: when the pipeline runs, its start and goal are the two most recently
\* accepted points in order of acceptance; a request arriving with two points
\* buffered leaves the buffer holding just its own point if accepted, and
\* empty if not.
C8_LatestPair ==
    (lastOp = "target" /\ lastReq.handled) =>
        /\ lastReq.planRan => (Len(accepted) = 2 /\ lastReq.args = accepted)
        /\ Len(lastReq.preBuf) = 2 =>
              startGoal = IF lastReq.accepted THEN <<accepted[Len(accepted)]>> ELSE <<>>

\* the pipeline ran on two different points
C8_Witness ==
    /\ lastOp = "target"
    /\ lastReq.planRan
    /\ lastReq.args[1] # lastReq.args[2]
    /\ lastReq.args = accepted

\* C9: after every check call verifiedTime is at least the elapsed time.
C9_Clamp ==
    lastOp = "check" => getProgress(paChecker) >= lastCall.delta

\* a call whose elapsed time lies ahead of the marker
C9_Witness ==
    lastOp = "check" /\ lastCall.delta > lastCall.pre

\* C10: a check call with verifiedTime <= elapsed and the position on the
\* trajectory at elapsed, whose first sample fails the visibility test,
\* leaves verifiedTime = elapsed, and safe false when speed > 0.
C10_ImmediateLoss ==
    (/\ lastOp = "check"
     /\ lastCall.pre <= lastCall.delta
     /\ lastCall.pos = getPos(traj, lastCall.delta)
     /\ lastCall.delta + Eps <= getTotalDuration(traj)
     /\ ~Visible(paChecker, lastCall.h,
                 Sub(getPos(traj, lastCall.delta + Eps), lastCall.pos))) =>
        /\ getProgress(paChecker) = lastCall.delta
        /\ lastCall.speed > 0 => ~getSafeFlag(paChecker)

\* such a call on a moving trajectory, boresight off the direction of flight
C10_Witness ==
    /\ lastOp = "check"
    /\ lastCall.pre <= lastCall.delta
    /\ lastCall.delta > 0
    /\ lastCall.pos = getPos(traj, lastCall.delta)
    /\ lastCall.delta + Eps <= getTotalDuration(traj)
    /\ getPos(traj, lastCall.delta + Eps) # lastCall.pos
    /\ ~Visible(paChecker, lastCall.h,
                Sub(getPos(traj, lastCall.delta + Eps), lastCall.pos))
    /\ lastCall.speed > 0
    /\ getProgress(paChecker) = lastCall.delta
    /\ ~getSafeFlag(paChecker)

\* C11: every map event leaves mapInitialized true, mapInitialized never
\* becomes false again, and a map event that finds the map initialized
\* changes neither the occupancy map nor any other field of the planner.
C11_OneShotMap ==
    [][/\ mapInitialized => mapInitialized'
       /\ lastOp' = "map" =>
             /\ mapInitialized'
             /\ mapInitialized =>
                   UNCHANGED <<voxelMap, startGoal, traj, paChecker, trajStamp, now>>]_vars

\* a map event that arrives when a goal is already buffered
C11_Witness ==
    lastOp = "map" /\ mapInitialized /\ Len(startGoal) > 0

\* C12: a goal request that arrives before any map event changes neither
\* the goal buffer, the trajectory, its start time nor the monitor, and does
\* not run the planner pipeline.
C12_IdleIgnoresGoal ==
    [][(lastOp' = "target" /\ ~mapInitialized) =>
          /\ UNCHANGED <<startGoal, traj, trajStamp, paChecker>>
          /\ ~lastReq'.handled
          /\ ~lastReq'.planRan]_vars

\* a goal request in Idle
C12_Witness ==
    lastOp = "target" /\ ~mapInitialized /\ startGoal = <<>>

\* C13: after clear() verifiedTime is 0 and safe is false, and the cone
\* angle, the maximum range and the maximum deceleration are those the
\* monitor was built with.
C13_Reset ==
    lastOp = "clear" =>
        /\ getProgress(paChecker) = 0
        /\ getSafeFlag(paChecker) = FALSE
        /\ paChecker.angle = ConfAngle
        /\ paChecker.a_max = ConfAMax
        /\ paChecker.max_dist = ConfMaxDist

\* clear() on a monitor that had advanced
C13_Witness ==
    lastOp = "clear" /\ lastCall.pre > 0 /\ getProgress(paChecker) = 0

\* C14: the first sample of a check call passes the angular test exactly
\* when the cosine of the angle between the boresight and the direction to
\* the sample is strictly greater than cos(H), H = 40 degrees being the cone
\* half-angle the planner configures (cos(H) = 0.766...).
C14_ConeHalfAngle ==
    (lastOp = "check"
        /\ Clamp(lastCall.pre, lastCall.delta) + Eps <= getTotalDuration(traj)) =>
        LET t0 == Clamp(lastCall.pre, lastCall.delta) + Eps
            d == Sub(getPos(traj, t0), lastCall.pos)
            hd == Dot(lastCall.h, d)
        IN  InCone(paChecker.angle, lastCall.h, d) <=>
               (hd > 0 /\ 1000 * 1000 * hd * hd
                            > 766 * 766 * Dot(lastCall.h, lastCall.h) * Dot(d, d))

\* C15: with a unit boresight, the first sample of a check call passes the
\* range test exactly when its projection on the boresight is at most
\* max_dist (a negative projection passes); a sample in the cone with
\* projection at most max_dist advances verifiedTime to its time, and a
\* sample with a larger projection leaves verifiedTime at the clamped start.
C15_RangeInclusive ==
    (lastOp = "check" /\ Dot(lastCall.h, lastCall.h) = 1
        /\ Clamp(lastCall.pre, lastCall.delta) + Eps <= getTotalDuration(traj)) =>
        LET start == Clamp(lastCall.pre, lastCall.delta)
            d == Sub(getPos(traj, start + Eps), lastCall.pos)
            proj == Dot(lastCall.h, d)
        IN  /\ InRange(paChecker.max_dist, lastCall.h, d) <=> proj <= paChecker.max_dist
            /\ (InCone(paChecker.angle, lastCall.h, d) /\ proj <= paChecker.max_dist) =>
                  getProgress(paChecker) >= start + Eps
            /\ proj > paChecker.max_dist => getProgress(paChecker) = start

\* a first sample exactly max_dist ahead on the boresight, which is accepted
C15_Witness ==
    /\ lastOp = "check"
    /\ Dot(lastCall.h, lastCall.h) = 1
    /\ Clamp(lastCall.pre, lastCall.delta) + Eps <= getTotalDuration(traj)
    /\ Dot(lastCall.h,
           Sub(getPos(traj, Clamp(lastCall.pre, lastCall.delta) + Eps), lastCall.pos))
          = paChecker.max_dist
    /\ getProgress(paChecker) >= Clamp(lastCall.pre, lastCall.delta) + Eps

\* C16: with samples t_k = max(verifiedTime, elapsed) + Eps + k * Step, after
\* check verifiedTime is the last t_j such that t_0 .. t_j all lie within
\* T_total and pass both tests, or the clamped start if there is none; it
\* never reaches a failing sample or a sample behind one.
C16_HardStop ==
    lastOp = "check" =>
        LET start == IF lastCall.pre <= lastCall.delta THEN lastCall.delta ELSE lastCall.pre
            T == getTotalDuration(traj)
            passes(k) ==
                /\ start + Eps + k * Step <= T
                /\ Visible(paChecker, lastCall.h,
                           Sub(getPos(traj, start + Eps + k * Step), lastCall.pos))
            lead == {k \in 0..(T \div Step) : \A j \in 0..k : passes(j)}
        IN  getProgress(paChecker) =
                IF lead = {} THEN start
                ELSE start + Eps + Step * (CHOOSE k \in lead : \A j \in lead : j <= k)

\* the first sample fails and the second, within T_total, would pass
C16_Witness ==
    /\ lastOp = "check"
    /\ getProgress(paChecker) = lastCall.delta
    /\ lastCall.pre <= lastCall.delta
    /\ lastCall.delta + Eps + Step <= getTotalDuration(traj)
    /\ ~Visible(paChecker, lastCall.h,
                Sub(getPos(traj, lastCall.delta + Eps), lastCall.pos))
    /\ Visible(paChecker, lastCall.h,
               Sub(getPos(traj, lastCall.delta + Eps + Step), lastCall.pos))

\* C17: check is called only with a non-empty trajectory, an elapsed time in
\* [0, T_total] and a marker in [0, T_total], so that every sample of the
\* scan and the time of the stopping-distance query lie in [0, T_total]; and
\* whenever a trajectory is installed, verifiedTime lies in [0, T_total].
C17_QueriesInRange ==
    /\ lastOp = "check" =>
          /\ getPieceNum(traj) > 0
          /\ 0 <= lastCall.delta /\ lastCall.delta <= getTotalDuration(traj)
          /\ 0 <= lastCall.pre /\ lastCall.pre <= getTotalDuration(traj)
          /\ Clamp(lastCall.pre, lastCall.delta) <= getProgress(paChecker)
          /\ getProgress(paChecker) <= getTotalDuration(traj)
    /\ getPieceNum(traj) > 0 =>
          (0 <= getProgress(paChecker) /\ getProgress(paChecker) <= getTotalDuration(traj))

\* a tick whose scan reaches the end of the trajectory
C17_Witness ==
    /\ lastOp = "check"
    /\ getProgress(paChecker) = getTotalDuration(traj)
    /\ lastCall.delta < getProgress(paChecker)

\* C18: a step sets trajStamp to the clock when it is a goal request whose
\* pipeline ran to the end of optimize() with finite cost and left a
\* non-empty trajectory installed; every other step (map event, tick,
\* clock, ignored or rejected request, failed plan) leaves trajStamp as it was.
C18_StampOnInstall ==
    [][IF /\ lastOp' = "target"
          /\ lastReq'.planRan
          /\ lastReq'.outcome \in {"ok", "emptyTraj"}
          /\ getPieceNum(traj') > 0
       THEN trajStamp' = now
       ELSE trajStamp' = trajStamp]_vars

\* a trajectory installed after the clock has passed every value the
\* uninitialised start time could hold
C18_Witness ==
    /\ lastOp = "target"
    /\ lastReq.outcome = "ok"
    /\ getPieceNum(traj) > 0
    /\ now > 1
    /\ trajStamp = now

\* C19: for a check call whose clamped start lies within T_total, the scan
\* loop runs n times with n <= ceil((T_total - start) / Step), and it ends
\* either at a failing sample (the n-th) or because the next sample lies
\* beyond T_total.
C19_ScanBounded ==
    (lastOp = "check" /\ Clamp(lastCall.pre, lastCall.delta) <= getTotalDuration(traj)) =>
        LET start == Clamp(lastCall.pre, lastCall.delta)
            T == getTotalDuration(traj)
            n == ScanIters(paChecker, traj, lastCall.h, lastCall.pos, start + Eps)
            at(k) == start + Eps + k * Step
        IN  /\ n >= 0
            /\ n * Step <= (T - start) + Step - 1
            /\ n = 0 => (at(0) > T /\ getProgress(paChecker) = start)
            /\ n > 0 =>
                  \/ /\ getProgress(paChecker) = at(n - 1)
                     /\ at(n) > T
                  \/ /\ ~Visible(paChecker, lastCall.h,
                                 Sub(getPos(traj, at(n - 1)), lastCall.pos))
                     /\ getProgress(paChecker) = IF n = 1 THEN start ELSE at(n - 2)

\* a scan of two iterations, the most the window allows
C19_Witness ==
    /\ lastOp = "check"
    /\ Clamp(lastCall.pre, lastCall.delta) <= getTotalDuration(traj)
    /\ ScanIters(paChecker, traj, lastCall.h, lastCall.pos,
                 Clamp(lastCall.pre, lastCall.delta) + Eps) = 2
    /\ 2 * Step > getTotalDuration(traj) - Clamp(lastCall.pre, lastCall.delta)

\* C20: the goal buffer never holds more than two points, and every point
\* in it is free in the occupancy map (which has not changed since the point
\* was appended).
C20_GoalBuffer ==
    /\ Len(startGoal) <= 2
    /\ \A i \in 1..Len(startGoal) : query(voxelMap, startGoal[i]) = 0
    /\ Len(startGoal) > 0 => mapInitialized

\* a full buffer under a map that has occupied cells
C20_Witness ==
    Len(startGoal) = 2 /\ voxelMap # {} /\ lastOp = "target" /\ lastReq.accepted

====
